---------------------------- MODULE Spec2Model ----------------------------
(***************************************************************************)
(* A model of finql's storage handlers:                                    *)
(*   - the transaction codec RawTransaction::{to,from}_transaction and the *)
(*     Postgres transaction handler (finql-postgres/src/                   *)
(*     transaction_handler.rs),                                            *)
(*   - the Sqlite ticker / quote / rounding handler (finql-sqlite/src/     *)
(*     quote_handler.rs) with the default method of the QuoteHandler trait *)
(*     (finql-data/src/quote_handler.rs),                                  *)
(*   - the Sqlite asset handler (src/sqlite_handler/asset_handler.rs).     *)
(*                                                                         *)
(* Every handler method is one action; its arguments are drawn from small  *)
(* sets and its return value is recorded in the variable last.  A table is *)
(* a set of rows (records), a row's id is its primary key.  A SELECT that  *)
(* matches several rows and takes one (query_row, LIMIT 1) without an      *)
(* ORDER BY that separates them is a nondeterministic choice among them.   *)
(***************************************************************************)
EXTENDS Integers, Sequences, FiniteSets, TLC

VARIABLES
    db,            \* the table group this run works on (see Init)
    assets,        \* table assets(id, name, wkn, isin, note)
    tickers,       \* table ticker(id, name, asset_id, source, priority, currency, factor)
    quotes,        \* table quotes(id, ticker_id, price, time, volume)
    transactions,  \* table transactions(id, trans_type, asset_id, cash_amount, ...)
    rounding,      \* table rounding_digits(currency, digits)
    seq,           \* per table, the number of rows inserted so far
    last           \* the last call: [op, arg, res]

vars == <<db, assets, tickers, quotes, transactions, rounding, seq, last>>

---------------------------------------------------------------------------
(* Option<T> and Result<T, DataError> *)

None == <<>>
Some(x) == <<x>>
IsSome(o) == o # <<>>
Unwrap(o) == o[1]
Opt(S) == {None} \cup {Some(x) : x \in S}

Ok(v) == [ok |-> TRUE, err |-> "", val |-> <<v>>]
Err(kind) == [ok |-> FALSE, err |-> kind, val |-> <<>>]
Val(r) == r.val[1]

---------------------------------------------------------------------------
(* Integer widths.  usize and i32 are modelled with I32Bits < UsizeBits    *)
(* bits (the program has 32 and 64): `x as i32` keeps the low bits and     *)
(* reads them as two's complement, `x as usize` sign-extends.              *)

I32Bits == 3
UsizeBits == I32Bits + 1

Pow2(n) == 2 ^ n
MinI32 == -Pow2(I32Bits - 1)
MaxI32 == Pow2(I32Bits - 1) - 1
MaxUsize == Pow2(UsizeBits) - 1

AsI32(x) ==
    LET m == x % Pow2(I32Bits)
    IN  IF m > MaxI32 THEN m - Pow2(I32Bits) ELSE m

AsUsize(x) == x % Pow2(UsizeBits)

\* Option::map of the two casts.
OptAsI32(o) == IF IsSome(o) THEN Some(AsI32(Unwrap(o))) ELSE None

OptAsUsize(o) == IF IsSome(o) THEN Some(AsUsize(Unwrap(o))) ELSE None

---------------------------------------------------------------------------
(* Currency: an ISO code value; to_string prints the code, from_str parses *)
(* a string and fails on anything that is not a code.                      *)

CurrencyCodes == {"EUR", "USD"}
Currency == {[iso_code |-> c] : c \in CurrencyCodes}
CurrencyStrings == CurrencyCodes \cup {"", "EURO"}

Currency_to_string(c) == c.iso_code

Currency_from_str(s) ==
    IF s \in CurrencyCodes THEN Ok([iso_code |-> s]) ELSE Err("CurrencyError")

---------------------------------------------------------------------------
(* The transaction codec *)

CASH == "c"
ASSET == "a"
DIVIDEND == "d"
INTEREST == "i"
TAX == "t"
FEE == "f"

Tags == {CASH, ASSET, DIVIDEND, INTEREST, TAX, FEE}

RawTransaction(id, trans_type, asset, cash_amount, cash_currency, cash_date, related_trans, position, note) ==
    [id |-> id, trans_type |-> trans_type, asset |-> asset,
     cash_amount |-> cash_amount, cash_currency |-> cash_currency,
     cash_date |-> cash_date, related_trans |-> related_trans,
     position |-> position, note |-> note]

\* The match of to_transaction on the discriminant: the TransactionType, or
\* the InvalidTransaction error of a missing field or an unknown tag.
decode_mut_fee_as_tax(raw) ==
    CASE raw.trans_type = CASH -> Ok([variant |-> "Cash"])
      [] raw.trans_type = ASSET ->
            IF ~IsSome(raw.asset) THEN Err("InvalidTransaction")
            ELSE IF ~IsSome(raw.position) THEN Err("InvalidTransaction")
            ELSE Ok([variant |-> "Asset", asset_id |-> AsUsize(Unwrap(raw.asset)),
                     position |-> Unwrap(raw.position)])
      [] raw.trans_type = DIVIDEND ->
            IF ~IsSome(raw.asset) THEN Err("InvalidTransaction")
            ELSE Ok([variant |-> "Dividend", asset_id |-> AsUsize(Unwrap(raw.asset))])
      [] raw.trans_type = INTEREST ->
            IF ~IsSome(raw.asset) THEN Err("InvalidTransaction")
            ELSE Ok([variant |-> "Interest", asset_id |-> AsUsize(Unwrap(raw.asset))])
      [] raw.trans_type = TAX ->
            Ok([variant |-> "Tax", transaction_ref |-> OptAsUsize(raw.related_trans)])
      [] raw.trans_type = FEE ->
            Ok([variant |-> "Tax", transaction_ref |-> OptAsUsize(raw.related_trans)])
      [] OTHER -> Err("InvalidTransaction")

decode_mut_position_default(raw) ==
    CASE raw.trans_type = CASH -> Ok([variant |-> "Cash"])
      [] raw.trans_type = ASSET ->
            IF ~IsSome(raw.asset) THEN Err("InvalidTransaction")
            ELSE Ok([variant |-> "Asset", asset_id |-> AsUsize(Unwrap(raw.asset)),
                     position |-> IF IsSome(raw.position) THEN Unwrap(raw.position) ELSE 0])
      [] raw.trans_type = DIVIDEND ->
            IF ~IsSome(raw.asset) THEN Err("InvalidTransaction")
            ELSE Ok([variant |-> "Dividend", asset_id |-> AsUsize(Unwrap(raw.asset))])
      [] raw.trans_type = INTEREST ->
            IF ~IsSome(raw.asset) THEN Err("InvalidTransaction")
            ELSE Ok([variant |-> "Interest", asset_id |-> AsUsize(Unwrap(raw.asset))])
      [] raw.trans_type = TAX ->
            Ok([variant |-> "Tax", transaction_ref |-> OptAsUsize(raw.related_trans)])
      [] raw.trans_type = FEE ->
            Ok([variant |-> "Fee", transaction_ref |-> OptAsUsize(raw.related_trans)])
      [] OTHER -> Err("InvalidTransaction")

decode_transaction_type(raw) ==
    CASE raw.trans_type = CASH -> Ok([variant |-> "Cash"])
      [] raw.trans_type = ASSET ->
            IF ~IsSome(raw.asset) THEN Err("InvalidTransaction")
            ELSE IF ~IsSome(raw.position) THEN Err("InvalidTransaction")
            ELSE Ok([variant |-> "Asset", asset_id |-> AsUsize(Unwrap(raw.asset)),
                     position |-> Unwrap(raw.position)])
      [] raw.trans_type = DIVIDEND ->
            IF ~IsSome(raw.asset) THEN Err("InvalidTransaction")
            ELSE Ok([variant |-> "Dividend", asset_id |-> AsUsize(Unwrap(raw.asset))])
      [] raw.trans_type = INTEREST ->
            IF ~IsSome(raw.asset) THEN Err("InvalidTransaction")
            ELSE Ok([variant |-> "Interest", asset_id |-> AsUsize(Unwrap(raw.asset))])
      [] raw.trans_type = TAX ->
            Ok([variant |-> "Tax", transaction_ref |-> OptAsUsize(raw.related_trans)])
      [] raw.trans_type = FEE ->
            Ok([variant |-> "Fee", transaction_ref |-> OptAsUsize(raw.related_trans)])
      [] OTHER -> Err("InvalidTransaction")

to_transaction(raw) ==
    LET currency == Currency_from_str(raw.cash_currency)
        transaction_type == decode_transaction_type(raw)
    IN  IF ~currency.ok THEN Err("InsertFailed")
        ELSE IF ~transaction_type.ok THEN transaction_type
        ELSE Ok([id |-> OptAsUsize(raw.id),
                 transaction_type |-> Val(transaction_type),
                 cash_flow |-> [amount |-> [amount |-> raw.cash_amount,
                                            currency |-> Val(currency)],
                                date |-> raw.cash_date],
                 note |-> raw.note])

\* encode_transaction_type with a Fee that also fills the asset column.
encode_mut_fee_sets_asset(tt) ==
    CASE tt.variant = "Cash" ->
            [trans_type |-> CASH, asset |-> None, related_trans |-> None, position |-> None]
      [] tt.variant = "Asset" ->
            [trans_type |-> ASSET, asset |-> Some(AsI32(tt.asset_id)),
             related_trans |-> None, position |-> Some(tt.position)]
      [] tt.variant = "Dividend" ->
            [trans_type |-> DIVIDEND, asset |-> Some(AsI32(tt.asset_id)),
             related_trans |-> None, position |-> None]
      [] tt.variant = "Interest" ->
            [trans_type |-> INTEREST, asset |-> Some(AsI32(tt.asset_id)),
             related_trans |-> None, position |-> None]
      [] tt.variant = "Tax" ->
            [trans_type |-> TAX, asset |-> None,
             related_trans |-> OptAsI32(tt.transaction_ref), position |-> None]
      [] tt.variant = "Fee" ->
            [trans_type |-> FEE, asset |-> Some(0),
             related_trans |-> OptAsI32(tt.transaction_ref), position |-> None]

\* The match of from_transaction on the variant: the fields it sets.
encode_transaction_type(tt) ==
    CASE tt.variant = "Cash" ->
            [trans_type |-> CASH, asset |-> None, related_trans |-> None, position |-> None]
      [] tt.variant = "Asset" ->
            [trans_type |-> ASSET, asset |-> Some(AsI32(tt.asset_id)),
             related_trans |-> None, position |-> Some(tt.position)]
      [] tt.variant = "Dividend" ->
            [trans_type |-> DIVIDEND, asset |-> Some(AsI32(tt.asset_id)),
             related_trans |-> None, position |-> None]
      [] tt.variant = "Interest" ->
            [trans_type |-> INTEREST, asset |-> Some(AsI32(tt.asset_id)),
             related_trans |-> None, position |-> None]
      [] tt.variant = "Tax" ->
            [trans_type |-> TAX, asset |-> None,
             related_trans |-> OptAsI32(tt.transaction_ref), position |-> None]
      [] tt.variant = "Fee" ->
            [trans_type |-> FEE, asset |-> None,
             related_trans |-> OptAsI32(tt.transaction_ref), position |-> None]

from_transaction(transaction) ==
    LET f == encode_transaction_type(transaction.transaction_type)
    IN  RawTransaction(OptAsI32(transaction.id),
                       f.trans_type,
                       f.asset,
                       transaction.cash_flow.amount.amount,
                       Currency_to_string(transaction.cash_flow.amount.currency),
                       transaction.cash_flow.date,
                       f.related_trans,
                       f.position,
                       transaction.note)


---------------------------------------------------------------------------
(* Bounds and input sets *)

MaxRows == 2     \* rows inserted into a table in one run (asset, ticker, quote, transaction CRUD)
MaxQuotes == 3   \* quotes inserted in one run of the quote resolution
MaxTime == 1     \* instants are 0..MaxTime

Times == 0 .. MaxTime

\* Values of usize arguments: small ones, the ends of the i32 range, the top.
UsizeSample == {0, 1, 2, MaxI32, MaxI32 + 1, MaxUsize}
\* Values of i32 columns.
I32Sample == {MinI32, 0, 1, MaxI32}

AssetNames == {"ACME", "OTHER"}
Wkns == {"W1"}
Isins == {"I1"}
Notes == {"n"}
TickerNames == {"TA", "TB"}
Sources == {"yahoo", "manual"}
Priorities == {1, 5}
Prices == {10}
Amounts == {20}
Positions == {-5, 10}
Dates == {1}
Digits == {2, 4}

---------------------------------------------------------------------------
(* Time stamps.  The quotes table stores a time as its RFC 3339 text, and  *)
(* SQL compares the texts.  The text of an instant is a string of decimal  *)
(* digits of fixed width, as every field of an RFC 3339 UTC time stamp is. *)

to_rfc3339(t) == <<t \div 10, t % 10>>

to_time(s) ==
    IF Len(s) = 2 /\ \A i \in 1..2 : s[i] \in 0..9
    THEN Ok(s[1] * 10 + s[2])
    ELSE Err("NotFound")

\* SQL's a <= b on TEXT: the comparison of the first place that differs.
TextLeq(a, b) ==
    \/ a = b
    \/ \E i \in 1 .. Len(a) :
          /\ i <= Len(b)
          /\ \A j \in 1 .. (i - 1) : a[j] = b[j]
          /\ a[i] < b[i]
    \/ Len(a) < Len(b) /\ \A j \in 1 .. Len(a) : a[j] = b[j]

TextLt(a, b) == TextLeq(a, b) /\ a # b

---------------------------------------------------------------------------
(* Rows and the id a table gives to a new row *)

\* The id of the row that is inserted after n rows were.
RowId(n) == n + 1

Ids(table) == {r.id : r \in table}

Call(op, arg, res) == [op |-> op, arg |-> arg, res |-> res]


---------------------------------------------------------------------------
(* The Sqlite asset handler *)

Asset(id, name, wkn, isin, note) ==
    [id |-> id, name |-> name, wkn |-> wkn, isin |-> isin, note |-> note]

AssetInputs(ids) ==
    {Asset(i, n, w, s, None) : i \in ids, n \in AssetNames, w \in Opt(Wkns), s \in Opt(Isins)}

\* The rows of a table that `SELECT id ... WHERE col = value` matches; a NULL
\* column matches no value.
RowsWhere(table, col, value) == {r \in table : r[col] = Some(value)}

\* The rows the SELECT of get_asset_id matches.
asset_id_rows_mut_wkn_first(table, asset) ==
    IF IsSome(asset.wkn) THEN RowsWhere(table, "wkn", Unwrap(asset.wkn))
    ELSE IF IsSome(asset.isin) THEN RowsWhere(table, "isin", Unwrap(asset.isin))
    ELSE {r \in table : r.name = asset.name}

asset_id_rows(table, asset) ==
    IF IsSome(asset.isin) THEN RowsWhere(table, "isin", Unwrap(asset.isin))
    ELSE IF IsSome(asset.wkn) THEN RowsWhere(table, "wkn", Unwrap(asset.wkn))
    ELSE {r \in table : r.name = asset.name}

\* query_row's outcomes on the values of the rows a SELECT matches: one of
\* them, or the error the caller maps.
QueryRow(values, err) ==
    IF values = {} THEN {Err(err)} ELSE {Ok(v) : v \in values}

insert_asset(asset) ==
    /\ db = "assets"
    /\ seq.assets < MaxRows
    /\ LET row == [asset EXCEPT !.id = RowId(seq.assets)]
           table == assets \cup {row}
       IN  /\ assets' = table
           /\ seq' = [seq EXCEPT !.assets = @ + 1]
           /\ \E res \in QueryRow(Ids({r \in table : r.name = asset.name}), "NotFound") :
                 last' = Call("insert_asset", asset, res)
    /\ UNCHANGED <<db, tickers, quotes, transactions, rounding>>

get_asset_id(asset) ==
    /\ db = "assets"
    /\ \E r \in QueryRow(Ids(asset_id_rows(assets, asset)), "none") :
          last' = Call("get_asset_id", asset, IF r.ok THEN Some(Val(r)) ELSE None)
    /\ UNCHANGED <<db, assets, tickers, quotes, transactions, rounding, seq>>

AssetOfRow(r) == [r EXCEPT !.id = Some(r.id)]

get_asset_by_id(id) ==
    /\ db = "assets"
    /\ \E res \in QueryRow({AssetOfRow(r) : r \in {x \in assets : x.id = id}}, "NotFound") :
          last' = Call("get_asset_by_id", id, res)
    /\ UNCHANGED <<db, assets, tickers, quotes, transactions, rounding, seq>>

\* UPDATE table SET ... WHERE id = id: the row with that id, if any, becomes row.
UpdateRow(table, id, row) ==
    {IF r.id = id THEN [row EXCEPT !.id = id] ELSE r : r \in table}

DeleteRow(table, id) == {r \in table : r.id # id}

update_asset_mut_no_check(asset) ==
    /\ db = "assets"
    /\ assets' = UpdateRow(assets, IF IsSome(asset.id) THEN Unwrap(asset.id) ELSE 1, asset)
    /\ last' = Call("update_asset", asset, Ok("unit"))
    /\ UNCHANGED <<db, tickers, quotes, transactions, rounding, seq>>

update_asset(asset) ==
    /\ db = "assets"
    /\ IF ~IsSome(asset.id)
       THEN /\ last' = Call("update_asset", asset, Err("NotFound"))
            /\ UNCHANGED assets
       ELSE /\ assets' = UpdateRow(assets, Unwrap(asset.id), asset)
            /\ last' = Call("update_asset", asset, Ok("unit"))
    /\ UNCHANGED <<db, tickers, quotes, transactions, rounding, seq>>

delete_asset(id) ==
    /\ db = "assets"
    /\ assets' = DeleteRow(assets, id)
    /\ last' = Call("delete_asset", id, Ok("unit"))
    /\ UNCHANGED <<db, tickers, quotes, transactions, rounding, seq>>


---------------------------------------------------------------------------
(* The Sqlite quote handler: tickers *)

Ticker(id, name, asset, source, priority, currency, factor) ==
    [id |-> id, name |-> name, asset |-> asset, source |-> source,
     priority |-> priority, currency |-> currency, factor |-> factor]

TickerInputs(ids) ==
    {Ticker(i, n, 1, s, p, [iso_code |-> "EUR"], 1) :
        i \in ids, n \in TickerNames, s \in Sources, p \in Priorities}

\* The row of table ticker that holds a Ticker.
TickerRow(id, ticker) ==
    [id |-> id, name |-> ticker.name, asset_id |-> ticker.asset,
     source |-> ticker.source, priority |-> ticker.priority,
     currency |-> Currency_to_string(ticker.currency), factor |-> ticker.factor]

\* The rows the SELECT of get_ticker_id matches.
ticker_id_rows(table, name) == {r \in table : r.name = name}

\* INSERT and SELECT of insert_ticker; op is the method that is called.
insert_ticker_step(ticker, op) ==
    /\ seq.ticker < MaxRows
    /\ LET table == tickers \cup {TickerRow(RowId(seq.ticker), ticker)}
       IN  /\ tickers' = table
           /\ seq' = [seq EXCEPT !.ticker = @ + 1]
           /\ \E res \in QueryRow(Ids({r \in table : r.name = ticker.name
                                                    /\ r.source = ticker.source}),
                                  "NotFound") :
                 last' = Call(op, ticker, res)

insert_ticker(ticker) ==
    /\ db = "tickers"
    /\ insert_ticker_step(ticker, "insert_ticker")
    /\ UNCHANGED <<db, assets, quotes, transactions, rounding>>

get_ticker_id(name) ==
    /\ db = "tickers"
    /\ \E r \in QueryRow(Ids(ticker_id_rows(tickers, name)), "none") :
          last' = Call("get_ticker_id", name, IF r.ok THEN Some(Val(r)) ELSE None)
    /\ UNCHANGED <<db, assets, tickers, quotes, transactions, rounding, seq>>

insert_if_new_ticker_mut_always_insert(ticker) ==
    /\ db = "tickers"
    /\ insert_ticker_step(ticker, "insert_if_new_ticker")
    /\ UNCHANGED <<db, assets, quotes, transactions, rounding>>

insert_if_new_ticker(ticker) ==
    /\ db = "tickers"
    /\ \E r \in QueryRow(Ids(ticker_id_rows(tickers, ticker.name)), "none") :
          IF r.ok
          THEN /\ last' = Call("insert_if_new_ticker", ticker, Ok(Val(r)))
               /\ UNCHANGED <<tickers, seq>>
          ELSE insert_ticker_step(ticker, "insert_if_new_ticker")
    /\ UNCHANGED <<db, assets, quotes, transactions, rounding>>

\* The Ticker that a row of table ticker holds, or the error of its currency.
TickerOfRow(r) ==
    LET currency == Currency_from_str(r.currency)
    IN  IF ~currency.ok THEN Err("NotFound")
        ELSE Ok(Ticker(Some(r.id), r.name, r.asset_id, r.source, r.priority,
                       Val(currency), r.factor))

get_ticker_by_id(id) ==
    /\ db = "tickers"
    /\ \E r \in QueryRow({TickerOfRow(x) : x \in {y \in tickers : y.id = id}}, "NotFound") :
          last' = Call("get_ticker_by_id", id, IF r.ok THEN Val(r) ELSE r)
    /\ UNCHANGED <<db, assets, tickers, quotes, transactions, rounding, seq>>

update_ticker(ticker) ==
    /\ db = "tickers"
    /\ IF ~IsSome(ticker.id)
       THEN /\ last' = Call("update_ticker", ticker, Err("NotFound"))
            /\ UNCHANGED tickers
       ELSE /\ tickers' = UpdateRow(tickers, Unwrap(ticker.id),
                                    TickerRow(Unwrap(ticker.id), ticker))
            /\ last' = Call("update_ticker", ticker, Ok("unit"))
    /\ UNCHANGED <<db, assets, quotes, transactions, rounding, seq>>

delete_ticker(id) ==
    /\ db = "tickers"
    /\ tickers' = DeleteRow(tickers, id)
    /\ last' = Call("delete_ticker", id, Ok("unit"))
    /\ UNCHANGED <<db, assets, quotes, transactions, rounding, seq>>


---------------------------------------------------------------------------
(* The Sqlite quote handler: quotes *)

Quote(id, ticker, price, time, volume) ==
    [id |-> id, ticker |-> ticker, price |-> price, time |-> time, volume |-> volume]

\* The row of table quotes that holds a Quote.
QuoteRow(id, quote) ==
    [id |-> id, ticker_id |-> quote.ticker, price |-> quote.price,
     time |-> to_rfc3339(quote.time), volume |-> quote.volume]

QuoteInputs(ids, tickerIds, prices, volumes) ==
    {Quote(i, t, p, time, v) :
        i \in ids, t \in tickerIds, p \in prices, time \in Times, v \in volumes}

insert_quote(quote) ==
    /\ db = "quotes"
    /\ seq.quotes < MaxRows
    /\ quotes' = quotes \cup {QuoteRow(RowId(seq.quotes), quote)}
    /\ seq' = [seq EXCEPT !.quotes = @ + 1]
    /\ last' = Call("insert_quote", quote, Ok(RowId(seq.quotes)))
    /\ UNCHANGED <<db, assets, tickers, transactions, rounding>>

\* FROM quotes q, ticker t WHERE t.asset_id IN assetIds AND t.id = q.ticker_id
\* AND q.time <= time: the joined rows.
quote_join_mut_no_cutoff(assetIds, time) ==
    {x \in [q : quotes, t : tickers] :
        /\ x.t.asset_id \in assetIds
        /\ x.t.id = x.q.ticker_id}

quote_join_mut_no_ticker_match(assetIds, time) ==
    {x \in [q : quotes, t : tickers] :
        /\ x.t.asset_id \in assetIds
        /\ TextLeq(x.q.time, time)}

quote_join(assetIds, time) ==
    {x \in [q : quotes, t : tickers] :
        /\ x.t.asset_id \in assetIds
        /\ x.t.id = x.q.ticker_id
        /\ TextLeq(x.q.time, time)}

\* ORDER BY q.time, t.priority DESC: x comes before y.
OrderedBefore(x, y) ==
    \/ TextLt(x.q.time, y.q.time)
    \/ x.q.time = y.q.time /\ x.t.priority > y.t.priority

\* LIMIT 1: the rows that the order puts first.
first_rows(joined) == {x \in joined : \A y \in joined : ~OrderedBefore(y, x)}

\* The (Quote, Currency) that a joined row holds, or the error of its
\* currency or its time.
QuoteOfJoined(x) ==
    LET currency == Currency_from_str(x.t.currency)
        time == to_time(x.q.time)
    IN  IF ~currency.ok THEN Err("NotFound")
        ELSE IF ~time.ok THEN Err("NotFound")
        ELSE Ok([quote |-> Quote(Some(x.q.id), x.q.ticker_id, x.q.price,
                                 Val(time), x.q.volume),
                 currency |-> Val(currency)])

get_last_quote_before(asset_name, time) ==
    /\ db = "resolve"
    /\ last.op = "new"
    /\ LET ids == {a.id : a \in {x \in assets : x.name = asset_name}}
       IN  \E r \in QueryRow({QuoteOfJoined(x) :
                                 x \in first_rows(quote_join(ids, to_rfc3339(time)))},
                             "NotFound") :
              last' = Call("get_last_quote_before", <<asset_name, time>>,
                           IF r.ok THEN Val(r) ELSE r)
    /\ UNCHANGED <<db, assets, tickers, quotes, transactions, rounding, seq>>

get_last_quote_before_by_id(asset_id, time) ==
    /\ db = "resolve"
    /\ last.op = "new"
    /\ \E r \in QueryRow({QuoteOfJoined(x) :
                             x \in first_rows(quote_join({asset_id}, to_rfc3339(time)))},
                         "NotFound") :
          last' = Call("get_last_quote_before_by_id", <<asset_id, time>>,
                       IF r.ok THEN Val(r) ELSE r)
    /\ UNCHANGED <<db, assets, tickers, quotes, transactions, rounding, seq>>

update_quote(quote) ==
    /\ db = "quotes"
    /\ IF ~IsSome(quote.id)
       THEN /\ last' = Call("update_quote", quote, Err("NotFound"))
            /\ UNCHANGED quotes
       ELSE /\ quotes' = UpdateRow(quotes, Unwrap(quote.id),
                             [id |-> Unwrap(quote.id), ticker_id |-> quote.ticker,
                              price |-> quote.ticker, time |-> to_rfc3339(quote.time),
                              volume |-> quote.volume])
            /\ last' = Call("update_quote", quote, Ok("unit"))
    /\ UNCHANGED <<db, assets, tickers, transactions, rounding, seq>>

delete_quote(id) ==
    /\ db = "quotes"
    /\ quotes' = DeleteRow(quotes, id)
    /\ last' = Call("delete_quote", id, Ok("unit"))
    /\ UNCHANGED <<db, assets, tickers, transactions, rounding, seq>>

\* ORDER BY time ASC: the orders in which a SELECT can return rows; rows of
\* the same time come in any order.
rows_by_time(rows) ==
    {f \in [1 .. Cardinality(rows) -> rows] :
        /\ \A i, j \in DOMAIN f : i # j => f[i] # f[j]
        /\ \A i, j \in DOMAIN f : i < j => TextLeq(f[i].time, f[j].time)}

\* The Quote that get_all_quotes_for_ticker builds of a row.
QuoteOfRow(r, ticker_id) ==
    Quote(Some(r.id), ticker_id, r.price, Val(to_time(r.time)), r.volume)

get_all_quotes_for_ticker(ticker_id) ==
    /\ db = "quotes"
    /\ LET rows == {r \in quotes : r.ticker_id = ticker_id}
       IN  \E f \in rows_by_time(rows) :
              last' = Call("get_all_quotes_for_ticker", ticker_id,
                           IF \E r \in rows : ~to_time(r.time).ok
                           THEN Err("NotFound")
                           ELSE Ok([i \in DOMAIN f |-> QuoteOfRow(f[i], ticker_id)]))
    /\ UNCHANGED <<db, assets, tickers, quotes, transactions, rounding, seq>>

---------------------------------------------------------------------------
(* The Sqlite quote handler: rounding digits *)

\* The rows the SELECT of get_rounding_digits matches.
rounding_rows(table, currency) ==
    {r \in table : r.currency = Currency_to_string(currency)}

get_rounding_digits_mut_default_zero(currency) ==
    /\ db = "rounding"
    /\ \E r \in QueryRow({r.digits : r \in rounding_rows(rounding, currency)}, "NotFound") :
          last' = Call("get_rounding_digits", currency, IF r.ok THEN Val(r) ELSE 0)
    /\ UNCHANGED <<db, assets, tickers, quotes, transactions, rounding, seq>>

get_rounding_digits(currency) ==
    /\ db = "rounding"
    /\ \E r \in QueryRow({r.digits : r \in rounding_rows(rounding, currency)}, "NotFound") :
          last' = Call("get_rounding_digits", currency, IF r.ok THEN Val(r) ELSE 2)
    /\ UNCHANGED <<db, assets, tickers, quotes, transactions, rounding, seq>>


set_rounding_digits(currency, digits) ==
    /\ db = "rounding"
    /\ seq.rounding < MaxRows
    /\ rounding' = rounding \cup {[id |-> RowId(seq.rounding),
                                   currency |-> Currency_to_string(currency),
                                   digits |-> digits]}
    /\ seq' = [seq EXCEPT !.rounding = @ + 1]
    /\ last' = Call("set_rounding_digits", <<currency, digits>>, Ok("unit"))
    /\ UNCHANGED <<db, assets, tickers, quotes, transactions>>

---------------------------------------------------------------------------
(* The Postgres transaction handler *)

Transaction(id, transaction_type, amount, currency, date, note) ==
    [id |-> id, transaction_type |-> transaction_type,
     cash_flow |-> [amount |-> [amount |-> amount, currency |-> currency],
                    date |-> date],
     note |-> note]

TransactionTypes(ids, positions) ==
    {[variant |-> "Cash"]}
    \cup {[variant |-> "Asset", asset_id |-> a, position |-> p] : a \in ids, p \in positions}
    \cup {[variant |-> "Dividend", asset_id |-> a] : a \in ids}
    \cup {[variant |-> "Interest", asset_id |-> a] : a \in ids}
    \cup {[variant |-> "Tax", transaction_ref |-> r] : r \in Opt(ids)}
    \cup {[variant |-> "Fee", transaction_ref |-> r] : r \in Opt(ids)}

\* The transactions the handler is called with.
TransactionInputs(ids) ==
    {Transaction(i, tt, a, [iso_code |-> "EUR"], d, None) :
        i \in ids, tt \in TransactionTypes({1}, {10}), a \in Amounts, d \in Dates}

insert_transaction(transaction) ==
    /\ db = "transactions"
    /\ seq.transactions < MaxRows
    /\ LET raw == from_transaction(transaction)
           id == RowId(seq.transactions)
       IN  /\ transactions' = transactions \cup {[raw EXCEPT !.id = id]}
           /\ last' = Call("insert_transaction", transaction, Ok(AsUsize(id)))
    /\ seq' = [seq EXCEPT !.transactions = @ + 1]
    /\ UNCHANGED <<db, assets, tickers, quotes, rounding>>

RawOfRow(r) == [r EXCEPT !.id = Some(r.id)]

get_transaction_by_id(id) ==
    /\ db = "transactions"
    /\ \E r \in QueryRow({RawOfRow(r) : r \in {x \in transactions : x.id = AsI32(id)}}, "NotFound") :
          last' = Call("get_transaction_by_id", id,
                       IF r.ok THEN to_transaction(Val(r)) ELSE r)
    /\ UNCHANGED <<db, assets, tickers, quotes, transactions, rounding, seq>>

update_transaction(transaction) ==
    /\ db = "transactions"
    /\ IF ~IsSome(transaction.id)
       THEN /\ last' = Call("update_transaction", transaction, Err("NotFound"))
            /\ UNCHANGED transactions
       ELSE /\ LET id == AsI32(Unwrap(transaction.id))
               IN  transactions' = UpdateRow(transactions, id, from_transaction(transaction))
            /\ last' = Call("update_transaction", transaction, Ok("unit"))
    /\ UNCHANGED <<db, assets, tickers, quotes, rounding, seq>>

delete_transaction(id) ==
    /\ db = "transactions"
    /\ transactions' = DeleteRow(transactions, AsI32(id))
    /\ last' = Call("delete_transaction", id, Ok("unit"))
    /\ UNCHANGED <<db, assets, tickers, quotes, rounding, seq>>

---------------------------------------------------------------------------
(* The codec called on its own.  It has no state: a run makes one call. *)

\* Every variant, with ids at both ends of the i32 range and beyond it.
Transactions ==
    {Transaction(i, tt, a, c, d, n) :
        i \in Opt(UsizeSample), tt \in TransactionTypes(UsizeSample, Positions),
        a \in Amounts, c \in Currency, d \in Dates, n \in Opt(Notes)}

\* Rows as the table can hold them, well formed or not.
RawRows ==
    {RawTransaction(i, tag, a, amount, c, d, r, p, None) :
        i \in Opt({1}), tag \in Tags \cup {"", "x", "C"}, a \in Opt(I32Sample),
        amount \in Amounts, c \in CurrencyStrings, d \in Dates,
        r \in Opt(I32Sample), p \in Opt(Positions)}

call_from_transaction(transaction) ==
    /\ db = "codec"
    /\ last.op = "new"
    /\ last' = Call("from_transaction", transaction, from_transaction(transaction))
    /\ UNCHANGED <<db, assets, tickers, quotes, transactions, rounding, seq>>

call_to_transaction(raw) ==
    /\ db = "codec"
    /\ last.op = "new"
    /\ last' = Call("to_transaction", raw, to_transaction(raw))
    /\ UNCHANGED <<db, assets, tickers, quotes, transactions, rounding, seq>>

\* RawTransaction::from_transaction(t).to_transaction()
call_round_trip(transaction) ==
    /\ db = "codec"
    /\ last.op = "new"
    /\ last' = Call("round_trip", transaction, to_transaction(from_transaction(transaction)))
    /\ UNCHANGED <<db, assets, tickers, quotes, transactions, rounding, seq>>


---------------------------------------------------------------------------
(* Initial states and the next-state relation.                             *)
(*                                                                         *)
(* A run works on one table group, named by db: the codec alone, or the    *)
(* tables of one handler.  The tables a group reads but does not write     *)
(* start with rows that earlier inserts left there: two assets for the     *)
(* ticker and quote groups, three tickers for the quote groups, and, for   *)
(* the quote resolution, which only reads, up to MaxQuotes quotes.  The    *)
(* codec and the quote resolution change nothing, so a run calls them once.*)

DBs == {"codec", "transactions", "assets", "tickers", "quotes", "resolve", "rounding"}

EUR == [iso_code |-> "EUR"]
USD == [iso_code |-> "USD"]

StoredAssets ==
    {Asset(1, "ACME", None, None, None), Asset(2, "OTHER", None, None, None)}

\* Two tickers of asset 1 with priorities p1 and p2 and different
\* currencies, one ticker of asset 2.
StoredTickers(p1, p2) ==
    {TickerRow(1, Ticker(None, "TA", 1, "yahoo", p1, EUR, 1)),
     TickerRow(2, Ticker(None, "TB", 1, "manual", p2, USD, 1)),
     TickerRow(3, Ticker(None, "TC", 2, "yahoo", 1, EUR, 1))}

\* The tables of n <= MaxQuotes quotes that n calls of insert_quote leave.
\* The resolution reads no quote id, so of the orders in which the same
\* quotes can be inserted one is kept: by ticker, then by time.
QuoteKey(q) == q.ticker * (MaxTime + 1) + q.time

StoredQuotes ==
    UNION {{{QuoteRow(RowId(i - 1), f[i]) : i \in 1 .. n} :
                f \in {g \in [1 .. n -> QuoteInputs({None}, 1 .. 3, Prices, {None})] :
                          \A i \in 1 .. (n - 1) : QuoteKey(g[i]) <= QuoteKey(g[i + 1])}} :
           n \in 0 .. MaxQuotes}

RowIds == 1 .. MaxRows

\* The ids the transaction handler is called with: usize values, among them
\* one beyond the i32 range whose low bits are a row id, and the largest.
TransactionIds == RowIds \cup {Pow2(I32Bits) + 1, MaxUsize}

Init ==
    /\ db \in DBs
    /\ assets = IF db \in {"tickers", "quotes", "resolve"} THEN StoredAssets ELSE {}
    /\ tickers \in IF db = "resolve"
                   THEN {StoredTickers(p1, p2) : p1 \in Priorities, p2 \in Priorities}
                   ELSE IF db = "quotes" THEN {StoredTickers(1, 5)} ELSE {{}}
    /\ quotes \in IF db = "resolve" THEN StoredQuotes ELSE {{}}
    /\ transactions = {}
    /\ rounding = {}
    /\ seq = [assets |-> Cardinality(assets), ticker |-> Cardinality(tickers),
              quotes |-> Cardinality(quotes), transactions |-> 0, rounding |-> 0]
    /\ last = Call("new", <<>>, Ok("unit"))

Next ==
    \/ \E t \in Transactions : call_from_transaction(t)
    \/ \E raw \in RawRows : call_to_transaction(raw)
    \/ \E t \in Transactions : call_round_trip(t)
    \/ \E t \in TransactionInputs({None}) : insert_transaction(t)
    \/ \E id \in TransactionIds : get_transaction_by_id(id)
    \/ \E t \in TransactionInputs(Opt(RowIds)) : update_transaction(t)
    \/ \E id \in TransactionIds : delete_transaction(id)
    \/ \E a \in AssetInputs({None}) : insert_asset(a)
    \/ \E a \in AssetInputs({None}) : get_asset_id(a)
    \/ \E id \in RowIds : get_asset_by_id(id)
    \/ \E a \in AssetInputs(Opt(RowIds)) : update_asset(a)
    \/ \E id \in RowIds : delete_asset(id)
    \/ \E t \in TickerInputs({None}) : insert_ticker(t)
    \/ \E n \in TickerNames : get_ticker_id(n)
    \/ \E t \in TickerInputs({None}) : insert_if_new_ticker(t)
    \/ \E id \in RowIds : get_ticker_by_id(id)
    \/ \E t \in TickerInputs(Opt(RowIds)) : update_ticker(t)
    \/ \E id \in RowIds : delete_ticker(id)
    \/ \E q \in QuoteInputs({None}, 1 .. 2, Prices, {None}) : insert_quote(q)
    \/ \E q \in QuoteInputs(Opt(RowIds), 1 .. 2, Prices, {None}) : update_quote(q)
    \/ \E id \in RowIds : delete_quote(id)
    \/ \E id \in 1 .. 2 : get_all_quotes_for_ticker(id)
    \/ \E n \in AssetNames \cup {"NONE"}, t \in Times : get_last_quote_before(n, t)
    \/ \E id \in 1 .. 3, t \in Times : get_last_quote_before_by_id(id, t)
    \/ \E c \in Currency : get_rounding_digits(c)
    \/ \E c \in Currency, d \in Digits : set_rounding_digits(c, d)

Spec == Init /\ [][Next]_vars


---------------------------------------------------------------------------
(* Properties of the codec *)

\* The ids a transaction carries: its own, its asset's, its reference's.
IdsOf(t) ==
    (IF IsSome(t.id) THEN {Unwrap(t.id)} ELSE {})
    \cup (IF t.transaction_type.variant \in {"Asset", "Dividend", "Interest"}
          THEN {t.transaction_type.asset_id} ELSE {})
    \cup (IF t.transaction_type.variant \in {"Tax", "Fee"}
             /\ IsSome(t.transaction_type.transaction_ref)
          THEN {Unwrap(t.transaction_type.transaction_ref)} ELSE {})

FitsI32(t) == \A i \in IdsOf(t) : i <= MaxI32

\* C1 as stated: from_transaction(t).to_transaction() succeeds and returns t,
\* for every transaction t.
C1_RoundTripEveryTransaction ==
    last.op = "round_trip" =>
        /\ last.res.ok
        /\ Val(last.res).id = last.arg.id
        /\ Val(last.res).transaction_type = last.arg.transaction_type
        /\ Val(last.res).cash_flow = last.arg.cash_flow
        /\ Val(last.res).note = last.arg.note

\* C1 (amended): for every transaction t whose id, asset_id and
\* transaction_ref, where present, are at most i32::MAX,
\* from_transaction(t).to_transaction() succeeds and returns a transaction
\* equal to t in id, transaction_type, cash_flow and note.
C1_RoundTrip ==
    (last.op = "round_trip" /\ FitsI32(last.arg)) =>
        /\ last.res.ok
        /\ Val(last.res).id = last.arg.id
        /\ Val(last.res).transaction_type = last.arg.transaction_type
        /\ Val(last.res).cash_flow = last.arg.cash_flow
        /\ Val(last.res).note = last.arg.note

C1_Witness ==
    /\ last.op = "round_trip"
    /\ FitsI32(last.arg)
    /\ last.arg.id = Some(MaxI32)
    /\ last.arg.note = Some("n")
    /\ last.arg.transaction_type = [variant |-> "Fee", transaction_ref |-> Some(1)]
    /\ last.res = Ok(last.arg)

CurrencyParses(raw) == Currency_from_str(raw.cash_currency).ok

VariantOfTag(tag) ==
    CASE tag = "c" -> "Cash"
      [] tag = "a" -> "Asset"
      [] tag = "d" -> "Dividend"
      [] tag = "i" -> "Interest"
      [] tag = "t" -> "Tax"
      [] tag = "f" -> "Fee"

\* A field that the row's discriminant requires is absent.
MissingRequired(raw) ==
    \/ raw.trans_type = "a" /\ (~IsSome(raw.asset) \/ ~IsSome(raw.position))
    \/ raw.trans_type \in {"d", "i"} /\ ~IsSome(raw.asset)

\* C8: on a row whose currency parses, to_transaction returns an
\* InvalidTransaction error when trans_type is none of c, a, d, i, t, f,
\* whatever the other fields hold, and returns Ok with the variant of the
\* tag when it is one of them and the fields the tag requires are present.
C8_Discriminant ==
    (last.op = "to_transaction" /\ CurrencyParses(last.arg)) =>
        /\ last.arg.trans_type \notin {"c", "a", "d", "i", "t", "f"}
              => last.res = Err("InvalidTransaction")
        /\ (last.arg.trans_type \in {"c", "a", "d", "i", "t", "f"}
            /\ ~MissingRequired(last.arg))
              => /\ last.res.ok
                 /\ Val(last.res).transaction_type.variant = VariantOfTag(last.arg.trans_type)

C8_Witness ==
    /\ last.op = "to_transaction"
    /\ CurrencyParses(last.arg)
    /\ last.arg.trans_type = "C"
    /\ IsSome(last.arg.asset) /\ IsSome(last.arg.position)
    /\ last.res = Err("InvalidTransaction")

\* C9 as stated: to_transaction fails with InvalidTransaction whenever a
\* field the discriminant requires is absent, and for the tags c, t, f it
\* never fails with that error.
C9_MissingFieldEveryRow ==
    last.op = "to_transaction" =>
        /\ MissingRequired(last.arg) => last.res = Err("InvalidTransaction")
        /\ last.arg.trans_type \in {"c", "t", "f"}
              => (last.res.ok \/ last.res.err # "InvalidTransaction")

\* C9 (amended): to_transaction fails whenever a field required by the
\* row's discriminant is absent (tag a without asset or position, tag d or i
\* without asset), with an InvalidTransaction error when the row's
\* cash_currency parses, the currency being checked first; for the tags c, t
\* and f it succeeds exactly when cash_currency parses, whether or not
\* asset, position or related_trans are present.
C9_MissingField ==
    last.op = "to_transaction" =>
        /\ MissingRequired(last.arg) => ~last.res.ok
        /\ (MissingRequired(last.arg) /\ CurrencyParses(last.arg))
              => last.res = Err("InvalidTransaction")
        /\ last.arg.trans_type \in {"c", "t", "f"}
              => (last.res.ok <=> CurrencyParses(last.arg))

C9_Witness ==
    /\ last.op = "to_transaction"
    /\ last.arg.trans_type = "a"
    /\ IsSome(last.arg.asset) /\ ~IsSome(last.arg.position)
    /\ CurrencyParses(last.arg)
    /\ last.res = Err("InvalidTransaction")


---------------------------------------------------------------------------
(* Properties of the quote resolution *)

ResolveOps == {"get_last_quote_before", "get_last_quote_before_by_id"}

\* The ids of the assets the last call asked for: by name, or by id.
AskedAssets ==
    IF last.op = "get_last_quote_before"
    THEN {a.id : a \in {x \in assets : x.name = last.arg[1]}}
    ELSE {last.arg[1]}

\* The instant of a stored quote.
InstantOf(q) == Val(to_time(q.time))

\* The quotes of the tickers of the asked assets, each with its ticker.
QuotesOfAsked ==
    {x \in [q : quotes, t : tickers] :
        x.t.id = x.q.ticker_id /\ x.t.asset_id \in AskedAssets}

\* Those at or before the cutoff of the last call.
Qualifying == {x \in QuotesOfAsked : InstantOf(x.q) <= last.arg[2]}

\* Those at the latest instant at or before the cutoff.
AtLatest == {x \in Qualifying : \A y \in Qualifying : InstantOf(y.q) <= InstantOf(x.q)}

\* The last call returned the stored quote x.q.
Returned(x) ==
    /\ last.res.ok
    /\ Val(last.res).quote =
          Quote(Some(x.q.id), x.q.ticker_id, x.q.price, InstantOf(x.q), x.q.volume)

\* C2: when a quote of a ticker of the asset has time <= cutoff, the
\* resolution returns such a quote, and no other such quote is later.
C2_LatestQuote ==
    (last.op \in ResolveOps /\ Qualifying # {}) =>
        \E x \in AtLatest : Returned(x)

\* C3: when several tickers of the asset have a quote at the latest time
\* <= cutoff, the resolution returns the quote of the ticker of highest
\* priority among them.
C3_TieBreakByPriority ==
    (last.op \in ResolveOps /\ Cardinality({x.t.id : x \in AtLatest}) >= 2) =>
        \E x \in AtLatest :
            /\ Returned(x)
            /\ \A y \in AtLatest : y.t.priority <= x.t.priority

\* C4: the resolution returns a NotFound error exactly when no ticker of the
\* asset has a quote with time <= cutoff, and Ok whenever one has.
C4_NotFoundIffNoQuote ==
    last.op \in ResolveOps =>
        /\ last.res.ok <=> Qualifying # {}
        /\ ~last.res.ok => last.res = Err("NotFound")

\* All quotes of the asset are later than the cutoff.
C4_Witness ==
    /\ last.op = "get_last_quote_before"
    /\ QuotesOfAsked # {}
    /\ Qualifying = {}
    /\ last.res = Err("NotFound")


---------------------------------------------------------------------------
(* Properties of the ticker, asset and rounding handlers *)

\* At most one row of the table per name.
OnePerName(table) == \A r1, r2 \in table : r1.name = r2.name => r1 = r2

\* C5: a call of insert_if_new_ticker on a store with at most one ticker row
\* per name leaves at most one row per name; and a second call that follows a
\* call with a ticker of the same name returns the same id and adds no row.
C5_InsertIfNewTicker ==
    [][(last'.op = "insert_if_new_ticker" /\ OnePerName(tickers)) =>
          /\ OnePerName(tickers')
          /\ (last.op = "insert_if_new_ticker" /\ last.arg.name = last'.arg.name)
                => (last'.res = last.res /\ tickers' = tickers)]_vars

\* The second call, with a ticker of the same name from another source,
\* returned the id of the stored row.
C5_Witness ==
    /\ last.op = "insert_if_new_ticker"
    /\ OnePerName(tickers)
    /\ \E r \in tickers :
          /\ r.name = last.arg.name
          /\ r.source # last.arg.source
          /\ last.res = Ok(r.id)

\* C6: get_asset_id is decided by the ISIN alone when the asset carries one,
\* else by the WKN alone when it carries one, else by the name: it returns
\* the id of a stored asset that matches in that field, or none when no
\* stored asset does.
C6_AssetIdPriority ==
    last.op = "get_asset_id" =>
        LET a == last.arg
            matching ==
                IF a.isin # None THEN {r \in assets : r.isin = a.isin}
                ELSE IF a.wkn # None THEN {r \in assets : r.wkn = a.wkn}
                ELSE {r \in assets : r.name = a.name}
        IN  /\ last.res = None <=> matching = {}
            /\ last.res # None => \E r \in matching : last.res = Some(r.id)

\* The asked asset has an ISIN and a WKN, another stored asset shares its
\* WKN and its name, and the asset with the ISIN is returned.
C6_Witness ==
    /\ last.op = "get_asset_id"
    /\ last.arg.isin # None /\ last.arg.wkn # None
    /\ \E r1, r2 \in assets :
          /\ r1.isin = last.arg.isin /\ r1.wkn # last.arg.wkn /\ r1.name # last.arg.name
          /\ r2.isin # last.arg.isin /\ r2.wkn = last.arg.wkn /\ r2.name = last.arg.name
          /\ last.res = Some(r1.id)

UpdateOps == {"update_asset", "update_ticker", "update_quote", "update_transaction"}

\* C7: an update of an entity whose id is None returns a NotFound error and
\* leaves every stored row unchanged.
C7_UpdateWithoutId ==
    [][(last'.op \in UpdateOps /\ last'.arg.id = None) =>
          /\ last'.res = Err("NotFound")
          /\ UNCHANGED <<assets, tickers, quotes, transactions, rounding>>]_vars

C7_Witness ==
    /\ last.op = "update_quote"
    /\ last.arg.id = None
    /\ last.res = Err("NotFound")
    /\ quotes # {}

\* C10: get_rounding_digits returns 2 for a currency without an entry, and
\* right after a successful set_rounding_digits(cur, d) on a currency that
\* had no entry it returns d for cur.
C10_RoundingDefault ==
    [][last'.op = "get_rounding_digits" =>
          /\ rounding_rows(rounding, last'.arg) = {} => last'.res = 2
          /\ (/\ last.op = "set_rounding_digits"
              /\ last.res.ok
              /\ last.arg[1] = last'.arg
              /\ Cardinality(rounding_rows(rounding, last'.arg)) = 1)
                => last'.res = last.arg[2]]_vars

\* A currency was set to 4 digits and is asked, another has no entry.
C10_Witness ==
    /\ last.op = "get_rounding_digits"
    /\ last.res = 4
    /\ Cardinality(rounding_rows(rounding, last.arg)) = 1
    /\ \E c \in Currency : rounding_rows(rounding, c) = {}

---------------------------------------------------------------------------
(* C11: set_rounding_digits as an upsert *)

\* C11: every set_rounding_digits call succeeds and leaves exactly one entry
\* for its currency, and a get_rounding_digits of that currency right after
\* it returns the digits of that call.
C11_Upsert ==
    [][/\ last'.op = "set_rounding_digits" =>
              /\ last'.res.ok
              /\ Cardinality(rounding_rows(rounding', last'.arg[1])) = 1
       /\ (/\ last.op = "set_rounding_digits"
           /\ last'.op = "get_rounding_digits"
           /\ last'.arg = last.arg[1])
             => last'.res = last.arg[2]]_vars

---------------------------------------------------------------------------
(* C12: the fields from_transaction fills *)

\* The tag of a variant.
TagOfVariant(v) ==
    CASE v = "Cash" -> CASH
      [] v = "Asset" -> ASSET
      [] v = "Dividend" -> DIVIDEND
      [] v = "Interest" -> INTEREST
      [] v = "Tax" -> TAX
      [] v = "Fee" -> FEE

\* The optional fields of row raw are present exactly as the variant of tt
\* requires, and the discriminant is the variant's tag.
PresentAsRequired(tt, raw) ==
    /\ raw.trans_type = TagOfVariant(tt.variant)
    /\ IsSome(raw.asset) <=> tt.variant \in {"Asset", "Dividend", "Interest"}
    /\ IsSome(raw.position) <=> tt.variant = "Asset"
    /\ IsSome(raw.related_trans) <=>
          (tt.variant \in {"Tax", "Fee"} /\ IsSome(tt.transaction_ref))

\* The reference that the variant carries into the row: none, the asset id
\* or the transaction_ref.
RefOf(tt) ==
    IF tt.variant \in {"Asset", "Dividend", "Interest"} THEN Some(tt.asset_id)
    ELSE IF tt.variant \in {"Tax", "Fee"} THEN tt.transaction_ref
    ELSE None

RowRefOf(raw) == IF IsSome(raw.asset) THEN raw.asset ELSE raw.related_trans

\* C12, as stated: from_transaction fills the optional fields exactly as the
\* variant requires, asset with the asset_id, position with the position and
\* related_trans with the transaction_ref, whatever the ids are.
C12_FieldsEveryTransaction ==
    last.op = "from_transaction" =>
        LET tt == last.arg.transaction_type
        IN  /\ PresentAsRequired(tt, last.res)
            /\ RowRefOf(last.res) = RefOf(tt)
            /\ tt.variant = "Asset" => last.res.position = Some(tt.position)

\* C12, amended: the fields are present exactly as the variant requires and
\* the discriminant is the variant's tag for every transaction; asset and
\* related_trans hold the asset_id and the transaction_ref when these are at
\* most i32::MAX.
C12_Fields ==
    last.op = "from_transaction" =>
        LET tt == last.arg.transaction_type
        IN  /\ PresentAsRequired(tt, last.res)
            /\ tt.variant = "Asset" => last.res.position = Some(tt.position)
            /\ (IsSome(RefOf(tt)) /\ Unwrap(RefOf(tt)) <= MaxI32)
                  => RowRefOf(last.res) = RefOf(tt)

\* A Fee with a transaction_ref in the i32 range was encoded.
C12_Witness ==
    /\ last.op = "from_transaction"
    /\ last.arg.transaction_type.variant = "Fee"
    /\ last.arg.transaction_type.transaction_ref = Some(MaxI32)
    /\ last.res.related_trans = Some(MaxI32)
    /\ last.res.asset = None

---------------------------------------------------------------------------
(* C13: the id an insert returns *)

\* The id that a successful insert returned is the id of a row that is
\* stored now, of no row that was stored before the call (table), and of no
\* row that was ever stored (n rows were inserted before the call).
FreshId(res, table, tableAfter, n) ==
    res.ok => /\ Val(res) \in Ids(tableAfter)
              /\ Val(res) \notin Ids(table)
              /\ Val(res) \notin 1 .. n

\* C13: the id returned by a successful insert_asset, insert_ticker,
\* insert_quote or insert_transaction is the id of the row the call added:
\* no row stored before the call has it, also when a stored asset has the
\* name of the inserted one, and no deleted row ever had it.
C13_InsertReturnsNewId ==
    [][/\ last'.op = "insert_asset" =>
              FreshId(last'.res, assets, assets', seq.assets)
       /\ last'.op = "insert_ticker" =>
              FreshId(last'.res, tickers, tickers', seq.ticker)
       /\ last'.op = "insert_quote" =>
              FreshId(last'.res, quotes, quotes', seq.quotes)
       /\ last'.op = "insert_transaction" =>
              FreshId(last'.res, transactions, transactions', seq.transactions)]_vars

---------------------------------------------------------------------------
(* C14: deletes *)

\* A delete(id) that took table to tableAfter returned Ok and removed the
\* row with that id and no other row: nothing, if no row has that id.
DeletedOnly(res, id, table, tableAfter) ==
    /\ res.ok
    /\ tableAfter = {r \in table : r.id # id}

\* C14: delete_asset, delete_ticker, delete_quote and delete_transaction
\* return Ok, remove the row with the given id and no other row, leave the
\* store unchanged when no row has that id, and change nothing when they
\* are called a second time with the same id.
C14_DeleteById ==
    [][/\ last'.op = "delete_asset" =>
              /\ DeletedOnly(last'.res, last'.arg, assets, assets')
              /\ last = last' => assets' = assets
       /\ last'.op = "delete_ticker" =>
              /\ DeletedOnly(last'.res, last'.arg, tickers, tickers')
              /\ last = last' => tickers' = tickers
       /\ last'.op = "delete_quote" =>
              /\ DeletedOnly(last'.res, last'.arg, quotes, quotes')
              /\ last = last' => quotes' = quotes
       /\ last'.op = "delete_transaction" =>
              /\ DeletedOnly(last'.res, last'.arg, transactions, transactions')
              /\ last = last' => transactions' = transactions]_vars

---------------------------------------------------------------------------
(* C15: the currency of a resolved quote *)

\* The stored tickers with the id of the returned quote's ticker field.
TickersOfReturned == {t \in tickers : t.id = Val(last.res).quote.ticker}

\* C15: the currency that get_last_quote_before / get_last_quote_before_by_id
\* returns is the currency of the ticker whose id is the returned quote's
\* ticker field.
C15_CurrencyOfTicker ==
    (last.op \in ResolveOps /\ last.res.ok) =>
        /\ TickersOfReturned # {}
        /\ \A t \in TickersOfReturned :
              Currency_from_str(t.currency) = Ok(Val(last.res).currency)

\* A quote of the asset's second ticker was returned, with that ticker's
\* currency, which the asset's first ticker does not have.
C15_Witness ==
    /\ last.op \in ResolveOps
    /\ last.res.ok
    /\ Val(last.res).quote.ticker = 2
    /\ Val(last.res).currency = USD
    /\ \E t \in tickers : /\ t.asset_id \in AskedAssets
                          /\ t.currency # Currency_to_string(USD)

---------------------------------------------------------------------------
(* C16: the error of an unparsable currency *)

\* C16: decoding a row whose cash_currency does not parse as a currency
\* code fails with an InvalidCurrency error, whatever the row's discriminant.
C16_InvalidCurrency ==
    (last.op = "to_transaction" /\ ~CurrencyParses(last.arg)) =>
        /\ ~last.res.ok
        /\ last.res.err = "InvalidCurrency"

---------------------------------------------------------------------------
(* C17: update_quote *)

\* The stored row with id i holds the values of quote q.
HoldsQuote(table, i, q) ==
    \A r \in table : r.id = i => r = QuoteRow(i, q)

\* C17: after a successful update_quote(q) of a stored quote i, the stored
\* quote i has the ticker, price, time and volume of q and every other
\* stored quote is unchanged, and a get_all_quotes_for_ticker(q.ticker) that
\* follows returns the quote i with those values.
C17_UpdateQuote ==
    [][/\ (/\ last'.op = "update_quote"
           /\ last'.res.ok
           /\ Unwrap(last'.arg.id) \in Ids(quotes))
             => LET i == Unwrap(last'.arg.id)
                IN  /\ HoldsQuote(quotes', i, last'.arg)
                    /\ {r \in quotes' : r.id # i} = {r \in quotes : r.id # i}
       /\ (/\ last.op = "update_quote"
           /\ last.res.ok
           /\ Unwrap(last.arg.id) \in Ids(quotes)
           /\ last'.op = "get_all_quotes_for_ticker"
           /\ last'.arg = last.arg.ticker)
             => /\ last'.res.ok
                /\ \E k \in DOMAIN Val(last'.res) : Val(last'.res)[k] = last.arg]_vars

=============================================================================
